---------------------------- MODULE Spec2Model ----------------------------
(***************************************************************************)
(* Session state of the storyboard editor: src/App.tsx (the App component  *)
(* and its handlers) and src/components/InputSection.tsx (the handlers of  *)
(* the input view).  Texts are sequences of tokens; JSON.parse is a        *)
(* recursive-descent parser over them; JavaScript values are tagged        *)
(* records.  String literals of the source that are not ASCII are written  *)
(* here in romanised form.                                                 *)
(***************************************************************************)
EXTENDS Integers, Sequences, FiniteSets, TLC

(***************************************************************************)
(* JavaScript / JSON values                                                *)
(***************************************************************************)
Undefined == [kind |-> "undefined"]
Null      == [kind |-> "null"]
JTrue     == [kind |-> "bool", b |-> TRUE]
JFalse    == [kind |-> "bool", b |-> FALSE]
JNum(n)   == [kind |-> "num", n |-> n]
JStr(s)   == [kind |-> "str", s |-> s]
JArr(q)   == [kind |-> "arr", items |-> q]
JObj(f)   == [kind |-> "obj", fields |-> f]
EmptyObj  == JObj(<< >>)

\* JavaScript truthiness: undefined, null, false, 0 and "" are falsy.
Truthy(v) ==
  CASE v.kind = "undefined" -> FALSE
    [] v.kind = "null"      -> FALSE
    [] v.kind = "bool"      -> v.b
    [] v.kind = "num"       -> v.n # 0
    [] v.kind = "str"       -> v.s # ""
    [] OTHER                -> TRUE

\* Array.isArray(v)
IsArray(v) == v.kind = "arr"

\* Reading v.k throws a TypeError exactly when v is null or undefined.
CanRead(v) == v.kind \notin {"null", "undefined"}

\* v.k for a value whose property can be read: own fields of an object,
\* undefined otherwise (no index or prototype property is ever asked for).
Get(v, k) ==
  IF v.kind = "obj" /\ k \in DOMAIN v.fields THEN v.fields[k] ELSE Undefined

\* v.k = x on an object (the other fields are kept).
Put(v, k, x) ==
  JObj([f \in (DOMAIN v.fields) \cup {k} |-> IF f = k THEN x ELSE v.fields[f]])

(***************************************************************************)
(* Texts: sequences of tokens                                              *)
(***************************************************************************)
QUOTE == "\""
WS    == " "
\* FENCE stands for the three backquote characters that delimit a Markdown
\* code block, JSONWORD for the letters json.
FENCE == "<bq3>"
JSONWORD == "json"
NumberTokens == {"0", "1", "2", "5"}
NumberOf(tok) == CASE tok = "0" -> 0 [] tok = "1" -> 1 [] tok = "2" -> 2 [] OTHER -> 5

RECURSIVE Concat(_)
\* The string a sequence of tokens spells.
Concat(q) == IF q = << >> THEN "" ELSE Head(q) \o Concat(Tail(q))

\* rawInput.includes(FENCE)
IncludesFence(t) == \E i \in 1..Len(t) : t[i] = FENCE

RECURSIVE RemoveFenceJson(_)
\* rawInput.replace(/FENCE json/g, ""): every occurrence, left to right.
RemoveFenceJson(t) ==
  IF t = << >> THEN << >>
  ELSE IF Len(t) >= 2 /\ t[1] = FENCE /\ t[2] = JSONWORD
       THEN RemoveFenceJson(SubSeq(t, 3, Len(t)))
       ELSE <<Head(t)>> \o RemoveFenceJson(Tail(t))

\* .replace(/FENCE/g, "")
RemoveFence(t) == SelectSeq(t, LAMBDA tok : tok # FENCE)

StripMutOpeningOnly(t) == IF IncludesFence(t) THEN RemoveFenceJson(t) ELSE t
\* Step 2 of handleVisualize: strip Markdown code blocks.
Strip(t) == IF IncludesFence(t) THEN RemoveFence(RemoveFenceJson(t)) ELSE t

(***************************************************************************)
(* JSON.parse                                                              *)
(***************************************************************************)
Fail == [ok |-> FALSE, val |-> Undefined, next |-> 0]
Done(v, i) == [ok |-> TRUE, val |-> v, next |-> i]

RECURSIVE SkipWs(_, _)
SkipWs(t, i) == IF i <= Len(t) /\ t[i] = WS THEN SkipWs(t, i + 1) ELSE i

RECURSIVE StringEnd(_, _)
\* The index of the quote that closes a string whose content starts at i
\* (0 when there is none).
StringEnd(t, i) ==
  IF i > Len(t) THEN 0 ELSE IF t[i] = QUOTE THEN i ELSE StringEnd(t, i + 1)

\* A string literal starting at the quote at i.
ParseString(t, i) ==
  LET e == StringEnd(t, i + 1) IN
  IF e = 0 THEN Fail ELSE Done(JStr(Concat(SubSeq(t, i + 1, e - 1))), e + 1)

RECURSIVE ParseValue(_, _), ParseElements(_, _, _), ParseMembers(_, _, _)
\* A JSON value starting at or after i (white space skipped).
ParseValue(t, i0) ==
  LET i == SkipWs(t, i0) IN
  IF i > Len(t) THEN Fail
  ELSE CASE t[i] = "null"         -> Done(Null, i + 1)
         [] t[i] = "true"         -> Done(JTrue, i + 1)
         [] t[i] = "false"        -> Done(JFalse, i + 1)
         [] t[i] \in NumberTokens -> Done(JNum(NumberOf(t[i])), i + 1)
         [] t[i] = QUOTE          -> ParseString(t, i)
         [] t[i] = "["            ->
              LET j == SkipWs(t, i + 1) IN
              IF j <= Len(t) /\ t[j] = "]" THEN Done(JArr(<< >>), j + 1)
              ELSE ParseElements(t, j, << >>)
         [] t[i] = "{"            ->
              LET j == SkipWs(t, i + 1) IN
              IF j <= Len(t) /\ t[j] = "}" THEN Done(EmptyObj, j + 1)
              ELSE ParseMembers(t, j, EmptyObj)
         [] OTHER                 -> Fail

\* The elements of an array after "[" or ",", up to and including "]".
ParseElements(t, i, acc) ==
  LET r == ParseValue(t, i) IN
  IF ~r.ok THEN Fail
  ELSE LET j == SkipWs(t, r.next) IN
       IF j > Len(t) THEN Fail
       ELSE IF t[j] = "]" THEN Done(JArr(Append(acc, r.val)), j + 1)
       ELSE IF t[j] = "," THEN ParseElements(t, j + 1, Append(acc, r.val))
       ELSE Fail

\* The members of an object after "{" or ",", up to and including "}".
\* A repeated key keeps the last value.
ParseMembers(t, i0, acc) ==
  LET i == SkipWs(t, i0) IN
  IF i > Len(t) \/ t[i] # QUOTE THEN Fail
  ELSE LET k == ParseString(t, i) IN
       IF ~k.ok THEN Fail
       ELSE LET c == SkipWs(t, k.next) IN
            IF c > Len(t) \/ t[c] # ":" THEN Fail
            ELSE LET r == ParseValue(t, c + 1) IN
                 IF ~r.ok THEN Fail
                 ELSE LET j   == SkipWs(t, r.next)
                          obj == Put(acc, k.val.s, r.val)
                      IN IF j > Len(t) THEN Fail
                         ELSE IF t[j] = "}" THEN Done(obj, j + 1)
                         ELSE IF t[j] = "," THEN ParseMembers(t, j + 1, obj)
                         ELSE Fail

\* The parse of a whole text: ok with the value, or not ok (a SyntaxError).
ParseText(t) ==
  LET r == ParseValue(t, 1) IN
  IF r.ok /\ SkipWs(t, r.next) = Len(t) + 1
  THEN [ok |-> TRUE, val |-> r.val]
  ELSE [ok |-> FALSE, val |-> Undefined]

(***************************************************************************)
(* Literals of the source                                                  *)
(***************************************************************************)
\* App.tsx:67, the message of the structure error.
MsgMissingSequence ==
  "deiteo gujo oryu: 'storyboard_sequence' baeyeori eopseumnida."
\* The message of the SyntaxError JSON.parse throws (the engine's wording).
MsgSyntax == "Unexpected token in JSON"
\* The message of the TypeError thrown by reading a property of null.
MsgTypeError == "Cannot read properties of null (reading 'storyboard_sequence')"
\* App.tsx:91, the error slot's text for a message.
FormatError(msg) == JStr("oryu: " \o msg)

\* App.tsx:73-74
DefaultTitle   == "jemok eomneun peurojekteu"
DefaultLogline == "rogeuraini jegongdoeji anatseumnida."
DefaultProjectMetaMutEnglish ==
  JObj([title |-> JStr("Untitled Project"), logline |-> JStr("No logline provided.")])
DefaultProjectMeta ==
  JObj([title |-> JStr(DefaultTitle), logline |-> JStr(DefaultLogline)])

\* The toasts, as showToast sets them (App.tsx:35-37): App.tsx:29-33 (none
\* shown), 86, 92; InputSection.tsx:150, 153 (onShowToast always shows with
\* type 'success', App.tsx:145).
Toast(m, ty)       == [visible |-> TRUE, message |-> m, type |-> ty]
ToastInitial       == [visible |-> FALSE, message |-> "", type |-> "success"]
ToastCreated       == Toast("seutoribodeuga saengseongdoeeotseumnida!", "success")
ToastInvalidJson   ==
  Toast("olbareuji aneun JSON hyeongsigimnida. ibryeogeul hwaginhaejuseyo.", "error")
ToastRestoreDone   ==
  Toast("baegeop deiteo bogwon wallyo! seutoribodeuro idonghamnida.", "success")
ToastRestoreFailed ==
  Toast("baegeop pail bogwon silpae. pail hyeongsigeul hwaginhaejuseyo.", "success")
\* InputSection.tsx:108
ToastUrlLoaded     == Toast("imiji URL rodeu wallyo!", "success")

\* The messages of the errors of a reference-image load: InputSection.tsx:92,
\* 99, 111, and the message of the TypeError a rejected fetch carries.
MsgCannotLoad  == "imijireul bulleool su eopseumnida."
MsgNotAnImage  == "yuhyohaji aneun imiji pairimnida."
MsgConversion  == "imiji byeonhwan jung oryuga balsaenghaetseumnida."
MsgFetchFailed == "Failed to fetch"

(***************************************************************************)
(* The inputs: texts typed into the textarea, backup files, media maps     *)
(***************************************************************************)
\* A string literal, a member "k": v, an object and an array as token sequences.
Lit(str)     == <<QUOTE, str, QUOTE>>
Member(k, v) == Lit(k) \o <<":">> \o v
Braces(m)    == <<"{">> \o m \o <<"}">>
Brackets(m)  == <<"[">> \o m \o <<"]">>
Comma        == <<",">>

MetaText == Member("project_meta", Braces(Member("title", Lit("T")) \o Comma
                                          \o Member("logline", Lit("L"))))

\* not json
TextNotJson    == <<"not", WS, "json">>
\* null
TextNull       == <<"null">>
\* {"project_meta":{"title":"T","logline":"L"}}
TextNoSequence == Braces(MetaText)
\* {"storyboard_sequence":"x"}
TextSeqString  == Braces(Member("storyboard_sequence", Lit("x")))
\* {"storyboard_sequence":[1,2]}
TextSeq12      == Braces(Member("storyboard_sequence", Brackets(<<"1", ",", "2">>)))
\* {"project_meta":{...},"storyboard_sequence":[2,1]}
TextMetaSeq21  ==
  Braces(MetaText \o Comma
         \o Member("storyboard_sequence", Brackets(<<"2", ",", "1">>)))
\* {"storyboard_sequence":[]} inside a Markdown json fence
TextFencedEmpty ==
  <<FENCE, JSONWORD, WS>> \o Braces(Member("storyboard_sequence", Brackets(<< >>)))
  \o <<WS, FENCE>>
\* {"storyboard_sequence":[1],"FENCE storyboard_sequence":5}: well-formed
\* JSON in which a key holds the fence characters
TextFenceInKey ==
  Braces(Member("storyboard_sequence", Brackets(<<"1">>)) \o Comma
         \o <<QUOTE, FENCE, "storyboard_sequence", QUOTE, ":", "5">>)

\* {"storyboard_sequence":[]}
TextSeqEmpty == Braces(Member("storyboard_sequence", Brackets(<< >>)))

\* A text inside a Markdown fence: the opening delimiter with or without the
\* word json, the text next to the delimiters or on lines of its own (the
\* line break is written as a white space token).
FenceJsonTight(t) == <<FENCE, JSONWORD>> \o t \o <<FENCE>>
FenceJsonLines(t) == <<FENCE, JSONWORD, WS>> \o t \o <<WS, FENCE>>
FenceBareTight(t) == <<FENCE>> \o t \o <<FENCE>>
FenceBareLines(t) == <<FENCE, WS>> \o t \o <<WS, FENCE>>
Wrappings(t) ==
  { FenceJsonTight(t), FenceJsonLines(t), FenceBareTight(t), FenceBareLines(t) }

\* JSON texts that are typed as they are and inside a fence.
JsonTexts == { TextNull, TextNoSequence, TextSeq12, TextSeqEmpty, TextFenceInKey }
FenceTexts == JsonTexts \cup UNION { Wrappings(t) : t \in JsonTexts }

\* What the user can type (InputSection.tsx:295).
InputTexts ==
  { << >>, TextNotJson, TextNull, TextNoSequence, TextSeqString, TextSeq12,
    TextMetaSeq21, TextFencedEmpty, TextFenceInKey }

\* Backup files (InputSection.tsx:136).
\* {"data":{"project_meta":{...},"storyboard_sequence":[1]},
\*  "generatedImages":{"0":"X"},"videoUrls":{"0":"V"}}
BackupFull ==
  Braces(Member("data", Braces(MetaText \o Comma
                 \o Member("storyboard_sequence", Brackets(<<"1">>))))
         \o Comma \o Member("generatedImages", Braces(Member("0", Lit("X"))))
         \o Comma \o Member("videoUrls", Braces(Member("0", Lit("V")))))
\* {"data":{"storyboard_sequence":[]}}
BackupBare ==
  Braces(Member("data", Braces(Member("storyboard_sequence", Brackets(<< >>)))))
\* {"data":{"storyboard_sequence":[2],"reference_image":"R"},
\*  "generatedImages":{"1":"Y"}}
BackupWithRef ==
  Braces(Member("data", Braces(Member("storyboard_sequence", Brackets(<<"2">>))
                 \o Comma \o Member("reference_image", Lit("R"))))
         \o Comma \o Member("generatedImages", Braces(Member("1", Lit("Y")))))
\* {"data":{"storyboard_sequence":"x"}}
BackupSeqString ==
  Braces(Member("data", Braces(Member("storyboard_sequence", Lit("x")))))
\* {"data":{}}
BackupNoSequence == Braces(Member("data", Braces(<< >>)))
\* {"data":{"storyboard_sequence":[],"note":"e"},"generatedImages":{},
\*  "videoUrls":{}}
BackupEmptyMaps ==
  Braces(Member("data", Braces(Member("storyboard_sequence", Brackets(<< >>))
                 \o Comma \o Member("note", Lit("e"))))
         \o Comma \o Member("generatedImages", Braces(<< >>))
         \o Comma \o Member("videoUrls", Braces(<< >>)))
\* {"generatedImages":{}}
BackupNoData == Braces(Member("generatedImages", Braces(<< >>)))
\* {"data":{"storyboard_sequence":[5],"reference_image":""}}
BackupEmptyRef ==
  Braces(Member("data", Braces(Member("storyboard_sequence", Brackets(<<"5">>))
                 \o Comma \o Member("reference_image", Lit("")))))
\* (the files TextNotJson and TextNull hold: not json, and null)
BackupFiles ==
  { BackupFull, BackupBare, BackupWithRef, BackupSeqString, BackupNoSequence,
    BackupEmptyMaps, BackupNoData, BackupEmptyRef, TextNotJson, TextNull }

\* Mappings the generation workflow reports (App.tsx:103, 108).
ImageMaps == { JObj("2" :> JStr("X")), JObj("5" :> JStr("Y")) }
VideoMaps == { JObj("2" :> JStr("V")), JObj("5" :> JStr("W")) }

\* Image files the user can choose (InputSection.tsx:64): one that is read,
\* one whose read fails.
Files == { "F1", "Fbad" }
\* reader.result when the read of a file has ended (InputSection.tsx:68): the
\* data URL, or null when the read failed.
FileResult(f) == IF f = "Fbad" THEN Null ELSE JStr("data:" \o f)

\* Image URLs the user can type (InputSection.tsx:337), by what happens to
\* the load: it succeeds, fetch rejects, the response is not ok, the blob is
\* not an image, the conversion of the blob fails.
UrlOk         == "u-ok"
UrlNetwork    == "u-network"
UrlNotFound   == "u-404"
UrlNotImage   == "u-html"
UrlConversion == "u-conversion"
Urls == { UrlOk, UrlNetwork, UrlNotFound, UrlNotImage, UrlConversion }
\* reader.result when the conversion of a fetched blob has ended
\* (InputSection.tsx:105): the data URL, or null when it failed.
UrlResult(u) == IF u = UrlConversion THEN Null ELSE JStr("data:" \o u)

\* Credentials the user can type in the settings dialog (InputSection.tsx:470).
ApiKeys == { "", "k1", "k2" }

\* The parses of the texts above, computed once.
KnownTexts  ==
  InputTexts \cup FenceTexts \cup {Strip(t) : t \in InputTexts \cup FenceTexts}
  \cup BackupFiles
ParsedTexts == [t \in KnownTexts |-> ParseText(t)]

\* JSON.parse(text) (App.tsx:63, InputSection.tsx:137)
JSONparse(t) == IF t \in KnownTexts THEN ParsedTexts[t] ELSE ParseText(t)

(***************************************************************************)
(* handleVisualize and the restore of a backup, as functions               *)
(***************************************************************************)
\* App.tsx:66: the structure check passes.
HasSequenceArrayMutRejectsEmpty(v) ==
  /\ Truthy(Get(v, "storyboard_sequence"))
  /\ IsArray(Get(v, "storyboard_sequence"))
  /\ Get(v, "storyboard_sequence").items # << >>
HasSequenceArray(v) ==
  Truthy(Get(v, "storyboard_sequence")) /\ IsArray(Get(v, "storyboard_sequence"))

\* App.tsx:70-76: the fallback for a missing project_meta.
WithProjectMeta(v) ==
  IF ~Truthy(Get(v, "project_meta")) THEN Put(v, "project_meta", DefaultProjectMeta)
  ELSE v

\* App.tsx:79-81: the reference image is attached when there is one.
WithReferenceImage(v, img) ==
  IF Truthy(img) THEN Put(v, "reference_image", img) ELSE v

\* App.tsx:53-93: the body of the try block, and what the catch block sees:
\* ok with the document, or the message of the error thrown.
Visualize(text, img) ==
  LET p == JSONparse(Strip(text)) IN
  IF ~p.ok THEN [ok |-> FALSE, doc |-> Null, msg |-> MsgSyntax]
  ELSE IF ~CanRead(p.val) THEN [ok |-> FALSE, doc |-> Null, msg |-> MsgTypeError]
  ELSE IF ~HasSequenceArray(p.val)
       THEN [ok |-> FALSE, doc |-> Null, msg |-> MsgMissingSequence]
  ELSE [ok |-> TRUE, msg |-> "",
        doc |-> WithReferenceImage(WithProjectMeta(p.val), img)]

BackupAcceptedMutRejectsEmptySequence(b) ==
  /\ CanRead(b)
  /\ Truthy(Get(b, "data"))
  /\ Truthy(Get(Get(b, "data"), "storyboard_sequence"))
  /\ Get(Get(b, "data"), "storyboard_sequence") # JArr(<< >>)
BackupAcceptedMutNoSequenceCheck(b) ==
  /\ CanRead(b)
  /\ Truthy(Get(b, "data"))
\* InputSection.tsx:139: the check of a parsed backup passes.  Reading
\* backupData.data of null throws; it is caught like the explicit throw.
BackupAccepted(b) ==
  /\ CanRead(b)
  /\ Truthy(Get(b, "data"))
  /\ Truthy(Get(Get(b, "data"), "storyboard_sequence"))

OrEmptyMutKeepsUndefined(x) == x
\* x || {} (InputSection.tsx:146-147)
OrEmpty(x) == IF Truthy(x) THEN x ELSE EmptyObj

\* InputSection.tsx:135-154: ok with the three arguments of onRestoreData, or
\* not ok.
Restore(content) ==
  LET p == JSONparse(content) IN
  IF p.ok /\ BackupAccepted(p.val)
  THEN [ok |-> TRUE, data |-> Get(p.val, "data"),
        images |-> OrEmpty(Get(p.val, "generatedImages")),
        videos |-> OrEmpty(Get(p.val, "videoUrls"))]
  ELSE [ok |-> FALSE, data |-> Null, images |-> EmptyObj, videos |-> EmptyObj]

(***************************************************************************)
(* State                                                                   *)
(***************************************************************************)
VARIABLES
  viewMode,           \* App.tsx:9    "input" or "output"
  data,               \* App.tsx:10   the document, or Null
  error,              \* App.tsx:11   the error slot: a string, or Null
  userApiKey,         \* App.tsx:12   the credential, "" when there is none
  storage,            \* localStorage['gemini_api_key']: a string, or Null
  jsonInput,          \* App.tsx:21   the raw input text
  refImage,           \* App.tsx:22   the reference image: a string, or Null
  generatedImages,    \* App.tsx:25   index -> image
  videoUrls,          \* App.tsx:26   index -> video
  toast,              \* App.tsx:29   the notification
  isSettingsOpen,     \* InputSection.tsx:34
  tempApiKey,         \* InputSection.tsx:35
  showApiKeyWarning,  \* InputSection.tsx:36
  restoreReads,       \* backup files being read (InputSection.tsx:133, 156)
  showUrlInput,       \* InputSection.tsx:39
  imageUrl,           \* InputSection.tsx:40
  isLoadingUrl,       \* InputSection.tsx:41
  urlError,           \* InputSection.tsx:42   a message, or Null
  imageLoads,         \* reference-image loads in flight (InputSection.tsx:70,
                      \* 90, 113)
  uncaught            \* messages of the exceptions no handler has caught

appVars   == <<viewMode, data, error, userApiKey, storage, jsonInput, refImage,
               generatedImages, videoUrls, toast>>
urlVars   == <<showUrlInput, imageUrl, isLoadingUrl, urlError>>
localVars == <<isSettingsOpen, tempApiKey, showApiKeyWarning, urlVars>>
vars      == <<appVars, localVars, restoreReads, imageLoads, uncaught>>

\* Backup files that may be in the middle of being read at once.
MaxRestoreReads == 1
\* Reference-image loads that may be in flight at once.
MaxImageLoads == 2

\* A load in flight: a file being read (InputSection.tsx:70), a URL being
\* fetched (90-95) or a fetched blob being converted (113).  live tells
\* whether the InputSection that started it is still mounted: the state
\* setters of an unmounted component change nothing.
FileRead(f)     == [kind |-> "file", src |-> f, stage |-> "read", live |-> TRUE]
UrlFetch(u)     == [kind |-> "url", src |-> u, stage |-> "fetch", live |-> TRUE]

\* localStorage.getItem('gemini_api_key') || '' (App.tsx:12-18)
InitialApiKey(stored) == IF Truthy(stored) THEN stored.s ELSE ""

Init ==
  /\ viewMode = "input"
  /\ data = Null
  /\ error = Null
  /\ storage \in {Null, JStr("k1")}
  /\ userApiKey = InitialApiKey(storage)
  /\ jsonInput = << >>
  /\ refImage = Null
  /\ generatedImages = EmptyObj
  /\ videoUrls = EmptyObj
  /\ toast = ToastInitial
  /\ isSettingsOpen = FALSE
  /\ tempApiKey = userApiKey
  /\ showApiKeyWarning = FALSE
  /\ restoreReads = {}
  /\ showUrlInput = FALSE
  /\ imageUrl = ""
  /\ isLoadingUrl = FALSE
  /\ urlError = Null
  /\ imageLoads = {}
  /\ uncaught = {}

\* App.tsx:131-159: InputSection is rendered only in the input view, so its
\* own state is discarded when the view becomes "output" and starts from its
\* initial values (InputSection.tsx:34-42) when the view is "input" again.
\* The loads it started go on, without it.
InputSectionUnmounted ==
  /\ isSettingsOpen' = FALSE
  /\ tempApiKey' = userApiKey
  /\ showApiKeyWarning' = FALSE
  /\ showUrlInput' = FALSE
  /\ imageUrl' = ""
  /\ isLoadingUrl' = FALSE
  /\ urlError' = Null
  /\ imageLoads' = {[l EXCEPT !.live = FALSE] : l \in imageLoads}

\* jsonInput.trim() is not empty
NotBlank(t) == \E i \in 1..Len(t) : t[i] # WS

(***************************************************************************)
(* App.tsx                                                                 *)
(***************************************************************************)
\* App.tsx:166
ToastOnClose ==
  /\ toast.visible
  /\ toast' = [toast EXCEPT !.visible = FALSE]
  /\ UNCHANGED <<viewMode, data, error, userApiKey, storage, jsonInput, refImage,
                 generatedImages, videoUrls, localVars, restoreReads,
                 imageLoads, uncaught>>

handleSetApiKeyMutKeepsEntry(key) ==
  /\ userApiKey' = key
  /\ storage' = IF key # "" THEN JStr(key) ELSE storage
\* App.tsx:40-49
handleSetApiKey(key) ==
  /\ userApiKey' = key
  /\ storage' = IF key # "" THEN JStr(key) ELSE Null

handleVisualizeMutClearsOnFailure(text, img) ==
  LET r == Visualize(text, img) IN
  IF r.ok
  THEN /\ data' = r.doc
       /\ viewMode' = "output"
       /\ error' = Null
       /\ toast' = ToastCreated
       /\ InputSectionUnmounted
       /\ UNCHANGED <<userApiKey, storage, jsonInput, refImage, generatedImages,
                      videoUrls, restoreReads, uncaught>>
  ELSE /\ error' = FormatError(r.msg)
       /\ toast' = ToastInvalidJson
       /\ data' = Null
       /\ UNCHANGED <<viewMode, userApiKey, storage, jsonInput, refImage,
                      generatedImages, videoUrls, localVars, restoreReads,
                 imageLoads, uncaught>>
handleVisualizeMutResetsRegistries(text, img) ==
  LET r == Visualize(text, img) IN
  IF r.ok
  THEN /\ data' = r.doc
       /\ viewMode' = "output"
       /\ error' = Null
       /\ toast' = ToastCreated
       /\ generatedImages' = EmptyObj
       /\ videoUrls' = EmptyObj
       /\ InputSectionUnmounted
       /\ UNCHANGED <<userApiKey, storage, jsonInput, refImage, restoreReads,
                      uncaught>>
  ELSE /\ error' = FormatError(r.msg)
       /\ toast' = ToastInvalidJson
       /\ UNCHANGED <<viewMode, data, userApiKey, storage, jsonInput, refImage,
                      generatedImages, videoUrls, localVars, restoreReads,
                      imageLoads, uncaught>>
\* App.tsx:51-94
handleVisualize(text, img) ==
  LET r == Visualize(text, img) IN
  IF r.ok
  THEN /\ data' = r.doc
       /\ viewMode' = "output"
       /\ error' = Null
       /\ toast' = ToastCreated
       /\ InputSectionUnmounted
       /\ UNCHANGED <<userApiKey, storage, jsonInput, refImage, generatedImages,
                      videoUrls, restoreReads, uncaught>>
  ELSE /\ error' = FormatError(r.msg)
       /\ toast' = ToastInvalidJson
       /\ UNCHANGED <<viewMode, data, userApiKey, storage, jsonInput, refImage,
                      generatedImages, videoUrls, localVars, restoreReads,
                 imageLoads, uncaught>>

handleResetMutClearsData ==
  /\ viewMode = "output"
  /\ viewMode' = "input"
  /\ error' = Null
  /\ data' = Null
  /\ UNCHANGED <<userApiKey, storage, jsonInput, refImage, generatedImages,
                 videoUrls, toast, localVars, restoreReads,
                 imageLoads, uncaught>>
\* App.tsx:96-100, called by OutputSection (App.tsx:152)
handleReset ==
  /\ viewMode = "output"
  /\ viewMode' = "input"
  /\ error' = Null
  /\ UNCHANGED <<data, userApiKey, storage, jsonInput, refImage, generatedImages,
                 videoUrls, toast, localVars, restoreReads,
                 imageLoads, uncaught>>

ImagesUpdatedMutToggles(registry, images) ==
  IF registry = images THEN EmptyObj ELSE images
\* App.tsx:104, 109: the registry after setGeneratedImages(images) or
\* setVideoUrls(videos): the mapping given, whatever the registry held.
ImagesUpdated(registry, images) == images
VideosUpdated(registry, videos) == videos

\* App.tsx:103-105, called by OutputSection (App.tsx:155)
handleImagesUpdate(images) ==
  /\ viewMode = "output"
  /\ generatedImages' = ImagesUpdated(generatedImages, images)
  /\ UNCHANGED <<viewMode, data, error, userApiKey, storage, jsonInput, refImage,
                 videoUrls, toast, localVars, restoreReads,
                 imageLoads, uncaught>>

\* App.tsx:108-110, called by OutputSection (App.tsx:157)
handleVideosUpdate(videos) ==
  /\ viewMode = "output"
  /\ videoUrls' = VideosUpdated(videoUrls, videos)
  /\ UNCHANGED <<viewMode, data, error, userApiKey, storage, jsonInput, refImage,
                 generatedImages, toast, localVars, restoreReads,
                 imageLoads, uncaught>>

handleRestoreDataMutKeepsVideos(restoredData, images, videos) ==
  /\ data' = restoredData
  /\ generatedImages' = images
  /\ videoUrls' = videoUrls
  /\ refImage' = IF Truthy(Get(restoredData, "reference_image"))
                 THEN Get(restoredData, "reference_image") ELSE refImage
  /\ viewMode' = "output"
  /\ InputSectionUnmounted
handleRestoreDataMutAlwaysSetsRefImage(restoredData, images, videos) ==
  /\ data' = restoredData
  /\ generatedImages' = images
  /\ videoUrls' = videos
  /\ refImage' = Get(restoredData, "reference_image")
  /\ viewMode' = "output"
  /\ InputSectionUnmounted
\* App.tsx:113-125
handleRestoreData(restoredData, images, videos) ==
  /\ data' = restoredData
  /\ generatedImages' = images
  /\ videoUrls' = videos
  /\ refImage' = IF Truthy(Get(restoredData, "reference_image"))
                 THEN Get(restoredData, "reference_image") ELSE refImage
  /\ viewMode' = "output"
  /\ InputSectionUnmounted

\* App.tsx:139, InputSection.tsx:295: the user edits the text.
onJsonInputChange(text) ==
  /\ viewMode = "input"
  /\ jsonInput' = text
  /\ UNCHANGED <<viewMode, data, error, userApiKey, storage, refImage,
                 generatedImages, videoUrls, toast, localVars, restoreReads,
                 imageLoads, uncaught>>

(***************************************************************************)
(* InputSection.tsx                                                        *)
(***************************************************************************)
handleVisualizeClickMutNoKeyCheck == handleVisualize(jsonInput, refImage)
\* InputSection.tsx:47-54
handleVisualizeClick ==
  IF userApiKey = ""
  THEN /\ showApiKeyWarning' = TRUE
       /\ isSettingsOpen' = TRUE
       /\ UNCHANGED <<appVars, tempApiKey, urlVars,
                 restoreReads, imageLoads, uncaught>>
  ELSE handleVisualize(jsonInput, refImage)

\* InputSection.tsx:392-394: the button, disabled while the text is blank.
VisualizeButtonClick ==
  /\ viewMode = "input"
  /\ NotBlank(jsonInput)
  /\ handleVisualizeClick

\* InputSection.tsx:56-61: Ctrl/Cmd+Enter in the textarea.
handleKeyDown ==
  /\ viewMode = "input"
  /\ handleVisualizeClick

onGoToOutputMutNoGuard ==
  /\ viewMode = "input"
  /\ viewMode' = "output"
  /\ InputSectionUnmounted
  /\ UNCHANGED <<data, error, userApiKey, storage, jsonInput, refImage,
                 generatedImages, videoUrls, toast, restoreReads, uncaught>>
onGoToOutputMutDropsVideos ==
  /\ viewMode = "input"
  /\ IF data # Null
     THEN /\ viewMode' = "output"
          /\ videoUrls' = EmptyObj
          /\ InputSectionUnmounted
          /\ UNCHANGED <<data, error, userApiKey, storage, jsonInput, refImage,
                         generatedImages, toast, restoreReads, uncaught>>
     ELSE UNCHANGED vars
\* InputSection.tsx:178-201 (either navigation button) and App.tsx:142-143:
\* the click does nothing while there is no document.
onGoToOutput ==
  /\ viewMode = "input"
  /\ IF data # Null
     THEN /\ viewMode' = "output"
          /\ InputSectionUnmounted
          /\ UNCHANGED <<data, error, userApiKey, storage, jsonInput, refImage,
                         generatedImages, videoUrls, toast, restoreReads,
                         uncaught>>
     ELSE UNCHANGED vars

\* InputSection.tsx:74-79 (the button is shown while there is an image, 321-328)
clearImage ==
  /\ viewMode = "input"
  /\ Truthy(refImage)
  /\ refImage' = Null
  /\ imageUrl' = ""
  /\ urlError' = Null
  /\ UNCHANGED <<viewMode, data, error, userApiKey, storage, jsonInput,
                 generatedImages, videoUrls, toast, isSettingsOpen, tempApiKey,
                 showApiKeyWarning, showUrlInput, isLoadingUrl, restoreReads,
                 imageLoads, uncaught>>

\* InputSection.tsx:224-228
OpenSettings ==
  /\ viewMode = "input"
  /\ tempApiKey' = userApiKey
  /\ isSettingsOpen' = TRUE
  /\ UNCHANGED <<appVars, showApiKeyWarning, urlVars,
                 restoreReads, imageLoads, uncaught>>

\* InputSection.tsx:470
TypeApiKey(key) ==
  /\ viewMode = "input"
  /\ isSettingsOpen
  /\ tempApiKey' = key
  /\ UNCHANGED <<appVars, isSettingsOpen, showApiKeyWarning, urlVars,
                 restoreReads, imageLoads, uncaught>>

\* InputSection.tsx:440, 482
CloseSettings ==
  /\ viewMode = "input"
  /\ isSettingsOpen
  /\ isSettingsOpen' = FALSE
  /\ UNCHANGED <<appVars, tempApiKey, showApiKeyWarning, urlVars,
                 restoreReads, imageLoads, uncaught>>

\* InputSection.tsx:122-126 (the button is disabled while the key is blank, 489)
handleSaveApiKey ==
  /\ viewMode = "input"
  /\ isSettingsOpen
  /\ tempApiKey # ""
  /\ handleSetApiKey(tempApiKey)
  /\ isSettingsOpen' = FALSE
  /\ showApiKeyWarning' = FALSE
  /\ UNCHANGED <<viewMode, data, error, jsonInput, refImage, generatedImages,
                 videoUrls, toast, tempApiKey, urlVars, restoreReads,
                 imageLoads, uncaught>>

\* InputSection.tsx:129-133, 156-161: a backup file is chosen and its read
\* is started.
handleRestoreFile(content) ==
  /\ viewMode = "input"
  /\ Cardinality(restoreReads \cup {content}) <= MaxRestoreReads
  /\ restoreReads' = restoreReads \cup {content}
  /\ UNCHANGED <<appVars, localVars, imageLoads, uncaught>>

\* InputSection.tsx:134-155: reader.onload, when the read has finished.
RestoreOnload(content) ==
  /\ content \in restoreReads
  /\ restoreReads' = restoreReads \ {content}
  /\ LET r == Restore(content) IN
     IF r.ok
     THEN /\ handleRestoreData(r.data, r.images, r.videos)
          /\ toast' = ToastRestoreDone
          /\ UNCHANGED <<error, userApiKey, storage, jsonInput, uncaught>>
     ELSE /\ toast' = ToastRestoreFailed
          /\ UNCHANGED <<viewMode, data, error, userApiKey, storage, jsonInput,
                         refImage, generatedImages, videoUrls, localVars,
                         imageLoads, uncaught>>

\* App.tsx:137: the callback the input view receives as onSetApiKey, called
\* with any key (the empty one included).
onSetApiKey(key) ==
  /\ viewMode = "input"
  /\ handleSetApiKey(key)
  /\ UNCHANGED <<viewMode, data, error, jsonInput, refImage, generatedImages,
                 videoUrls, toast, localVars, restoreReads, imageLoads, uncaught>>

(***************************************************************************)
(* InputSection.tsx: the reference image                                   *)
(***************************************************************************)
\* imageUrl.trim() is empty (InputSection.tsx:83, 356)
BlankUrl(u) == u \in {"", " "}

\* InputSection.tsx:380 (the button is shown while there is no image and the
\* URL panel is closed, 316-388)
ShowUrlInput ==
  /\ viewMode = "input"
  /\ ~Truthy(refImage)
  /\ ~showUrlInput
  /\ showUrlInput' = TRUE
  /\ UNCHANGED <<appVars, isSettingsOpen, tempApiKey, showApiKeyWarning, imageUrl,
                 isLoadingUrl, urlError, restoreReads, imageLoads, uncaught>>

\* InputSection.tsx:349, the cancel button of the URL panel
CancelUrlInput ==
  /\ viewMode = "input"
  /\ ~Truthy(refImage)
  /\ showUrlInput
  /\ showUrlInput' = FALSE
  /\ imageUrl' = ""
  /\ urlError' = Null
  /\ UNCHANGED <<appVars, isSettingsOpen, tempApiKey, showApiKeyWarning,
                 isLoadingUrl, restoreReads, imageLoads, uncaught>>

\* InputSection.tsx:337, the user edits the URL
setImageUrl(u) ==
  /\ viewMode = "input"
  /\ ~Truthy(refImage)
  /\ showUrlInput
  /\ imageUrl' = u
  /\ UNCHANGED <<appVars, isSettingsOpen, tempApiKey, showApiKeyWarning,
                 showUrlInput, isLoadingUrl, urlError, restoreReads, imageLoads,
                 uncaught>>

\* InputSection.tsx:63-72: a file is chosen in the dialog that the upload
\* button (373, shown while there is no image and the URL panel is closed)
\* opens, and its read is started.
handleImageUpload(f) ==
  /\ viewMode = "input"
  /\ ~Truthy(refImage)
  /\ ~showUrlInput
  /\ Cardinality(imageLoads \cup {FileRead(f)}) <= MaxImageLoads
  /\ imageLoads' = imageLoads \cup {FileRead(f)}
  /\ UNCHANGED <<appVars, localVars, restoreReads, uncaught>>

ImageOnloadendMutFirstWins(l) ==
  /\ l \in imageLoads
  /\ l.kind = "file"
  /\ imageLoads' = imageLoads \ {l}
  /\ refImage' = IF Truthy(refImage) THEN refImage ELSE FileResult(l.src)
  /\ UNCHANGED <<viewMode, data, error, userApiKey, storage, jsonInput,
                 generatedImages, videoUrls, toast, localVars, restoreReads,
                 uncaught>>
\* InputSection.tsx:67-69: reader.onloadend of an uploaded file; it runs when
\* the read has ended, whether it succeeded or failed.
ImageOnloadend(l) ==
  /\ l \in imageLoads
  /\ l.kind = "file"
  /\ imageLoads' = imageLoads \ {l}
  /\ refImage' = FileResult(l.src)
  /\ UNCHANGED <<viewMode, data, error, userApiKey, storage, jsonInput,
                 generatedImages, videoUrls, toast, localVars, restoreReads,
                 uncaught>>

\* InputSection.tsx:82-90, up to the first await: Enter in the URL field
\* (338) or the load button (355).
handleLoadImageUrl ==
  /\ viewMode = "input"
  /\ ~Truthy(refImage)
  /\ showUrlInput
  /\ IF BlankUrl(imageUrl)
     THEN UNCHANGED vars
     ELSE /\ Cardinality(imageLoads \cup {UrlFetch(imageUrl)}) <= MaxImageLoads
          /\ imageLoads' = imageLoads \cup {UrlFetch(imageUrl)}
          /\ isLoadingUrl' = TRUE
          /\ urlError' = Null
          /\ UNCHANGED <<appVars, isSettingsOpen, tempApiKey, showApiKeyWarning,
                         showUrlInput, imageUrl, restoreReads, uncaught>>

\* The message of the error thrown in the try block for this URL
\* (InputSection.tsx:90-100), "" when none is thrown.
FetchError(u) ==
  CASE u = UrlNetwork  -> MsgFetchFailed
    [] u = UrlNotFound -> MsgCannotLoad
    [] u = UrlNotImage -> MsgNotAnImage
    [] OTHER           -> ""

\* InputSection.tsx:90-119, after the awaits: the checks, the start of the
\* conversion (103-113), the catch block (114-116) and the finally block
\* (117-119).
UrlFetchSettled(l) ==
  /\ l \in imageLoads
  /\ l.kind = "url"
  /\ l.stage = "fetch"
  /\ imageLoads' = IF FetchError(l.src) # ""
                   THEN imageLoads \ {l}
                   ELSE (imageLoads \ {l}) \cup {[l EXCEPT !.stage = "read"]}
  /\ urlError' = IF FetchError(l.src) # "" /\ l.live
                 THEN JStr(FetchError(l.src)) ELSE urlError
  /\ isLoadingUrl' = IF l.live THEN FALSE ELSE isLoadingUrl
  /\ UNCHANGED <<appVars, isSettingsOpen, tempApiKey, showApiKeyWarning,
                 showUrlInput, imageUrl, restoreReads, uncaught>>

\* InputSection.tsx:104-112: the end of the conversion.  When it failed,
\* reader.onerror runs first and throws outside every try block, then
\* reader.onloadend runs as it does after a success, with a null result.
UrlOnloadend(l) ==
  /\ l \in imageLoads
  /\ l.kind = "url"
  /\ l.stage = "read"
  /\ imageLoads' = imageLoads \ {l}
  /\ uncaught' = IF l.src = UrlConversion THEN uncaught \cup {MsgConversion}
                 ELSE uncaught
  /\ refImage' = UrlResult(l.src)
  /\ showUrlInput' = IF l.live THEN FALSE ELSE showUrlInput
  /\ imageUrl' = IF l.live THEN "" ELSE imageUrl
  /\ toast' = ToastUrlLoaded
  /\ UNCHANGED <<viewMode, data, error, userApiKey, storage, jsonInput,
                 generatedImages, videoUrls, isSettingsOpen, tempApiKey,
                 showApiKeyWarning, isLoadingUrl, urlError, restoreReads>>

(***************************************************************************)
(* Specifications                                                          *)
(***************************************************************************)
NextOver(texts, backups, imageMaps, videoMaps, keys) ==
  \/ \E t \in texts : onJsonInputChange(t)
  \/ VisualizeButtonClick
  \/ handleKeyDown
  \/ handleReset
  \/ onGoToOutput
  \/ \E m \in imageMaps : handleImagesUpdate(m)
  \/ \E m \in videoMaps : handleVideosUpdate(m)
  \/ \E c \in backups : handleRestoreFile(c)
  \/ \E c \in backups : RestoreOnload(c)
  \/ clearImage
  \/ OpenSettings
  \/ \E k \in keys : TypeApiKey(k)
  \/ CloseSettings
  \/ handleSaveApiKey
  \/ ToastOnClose

\* The operations on the reference image.
NextImageOver(files, urls) ==
  \/ ShowUrlInput
  \/ CancelUrlInput
  \/ \E u \in urls : setImageUrl(u)
  \/ \E f \in files : handleImageUpload(f)
  \/ \E l \in imageLoads : ImageOnloadend(l)
  \/ handleLoadImageUrl
  \/ \E l \in imageLoads : UrlFetchSettled(l)
  \/ \E l \in imageLoads : UrlOnloadend(l)

\* Every operation over every input.
Next ==
  \/ NextOver(InputTexts, BackupFiles, ImageMaps, VideoMaps, ApiKeys)
  \/ NextImageOver(Files, Urls \cup {" "})
Spec == Init /\ [][Next]_vars

\* Every operation, with the variety of the inputs put on the texts typed.
NextParse ==
  NextOver(InputTexts, {BackupWithRef}, {JObj("2" :> JStr("X"))},
           {JObj("2" :> JStr("V"))}, {"k1"})
SpecParse == Init /\ [][NextParse]_vars

\* Every operation, with the variety of the inputs put on texts typed with
\* and without a Markdown fence around them.
NextFence ==
  NextOver(FenceTexts, {BackupWithRef}, {JObj("2" :> JStr("X"))},
           {JObj("2" :> JStr("V"))}, {"k1"})
SpecFence == Init /\ [][NextFence]_vars

\* Every operation, with the variety of the inputs put on the backup files.
NextRestore ==
  NextOver({TextSeq12, TextNotJson},
           {BackupFull, BackupBare, BackupWithRef, BackupSeqString,
            BackupNoSequence, TextNotJson},
           {JObj("2" :> JStr("X"))}, {JObj("2" :> JStr("V"))}, {"k1"})
SpecRestore == Init /\ [][NextRestore]_vars

\* Every operation, with the variety of the inputs put on the backup files
\* that are restored: with and without media maps, with filled and with empty
\* maps, with, without and with an empty reference image.
NextRestoreSuccess ==
  NextOver({TextSeq12, TextNotJson},
           {BackupFull, BackupBare, BackupWithRef, BackupEmptyMaps, BackupEmptyRef},
           {JObj("2" :> JStr("X"))}, {JObj("2" :> JStr("V"))}, {"k1"})
SpecRestoreSuccess == Init /\ [][NextRestoreSuccess]_vars

\* Every operation, with the variety of the inputs put on the backup files
\* that are refused (next to one that is restored).
NextRestoreFailure ==
  NextOver({TextSeq12, TextNotJson},
           {TextNotJson, TextNull, BackupNoData, BackupNoSequence, BackupWithRef},
           {JObj("2" :> JStr("X"))}, {JObj("2" :> JStr("V"))}, {"k1"})
SpecRestoreFailure == Init /\ [][NextRestoreFailure]_vars

\* Every operation, with the variety of the inputs put on the media maps.
NextMedia ==
  NextOver({TextSeq12}, {BackupFull, BackupWithRef}, ImageMaps, VideoMaps, {"k1"})
SpecMedia == Init /\ [][NextMedia]_vars

\* The operations on the reference image over every image file and every
\* image URL, with the other operations that write the slot (clearImage, the
\* restore of a backup that carries a reference image) or that unmount and
\* mount the input view.
NextImage ==
  \/ NextImageOver(Files, Urls)
  \/ clearImage
  \/ handleRestoreFile(BackupWithRef)
  \/ RestoreOnload(BackupWithRef)
  \/ handleReset
  \/ onGoToOutput
SpecImage == Init /\ [][NextImage]_vars


\* The operations on the credential, with the variety of the inputs put on
\* the keys: the settings dialog, the calls of onSetApiKey, and the
\* visualize requests that read the credential.
NextKey ==
  \/ OpenSettings
  \/ \E k \in ApiKeys : TypeApiKey(k)
  \/ CloseSettings
  \/ handleSaveApiKey
  \/ \E k \in ApiKeys : onSetApiKey(k)
  \/ \E t \in {TextSeq12, TextNotJson} : onJsonInputChange(t)
  \/ VisualizeButtonClick
  \/ handleKeyDown
  \/ handleReset
  \/ ToastOnClose
SpecKey == Init /\ [][NextKey]_vars
(***************************************************************************)
(* Vocabulary of the properties                                            *)
(***************************************************************************)
\* The value has a storyboard_sequence that is an array.
HasSequence(v) ==
  /\ v.kind = "obj"
  /\ "storyboard_sequence" \in DOMAIN v.fields
  /\ v.fields["storyboard_sequence"].kind = "arr"

\* The text handleVisualize parses: the input without its fence delimiters.
Stripped(t) == SelectSeq(RemoveFenceJson(t), LAMBDA tok : tok # FENCE)

\* The input, fence delimiters aside, is well-formed JSON with a
\* storyboard_sequence array.
IsDocumentText(t) ==
  JSONparse(Stripped(t)).ok /\ HasSequence(JSONparse(Stripped(t)).val)

\* A step in which handleVisualize is called with the text and the reference
\* image held: a click or Ctrl/Cmd+Enter with a credential.
VisualizeStep ==
  /\ userApiKey # ""
  /\ viewMode = "input"
  /\ (VisualizeButtonClick \/ handleKeyDown)

\* C1: when handleVisualize is given text that is not well-formed JSON, or
\* whose parsed value has no storyboard_sequence array, the document, the view
\* mode, both media registries, the raw input text and the reference image
\* keep their values: only the error slot and the notification change.
C1_FailedParseChangesOnlyErrorAndToast ==
  [][(VisualizeStep /\ ~IsDocumentText(jsonInput))
       => /\ UNCHANGED <<data, viewMode, generatedImages, videoUrls, jsonInput,
                         refImage>>
          /\ UNCHANGED <<userApiKey, storage, localVars, restoreReads>>
          /\ error' # Null]_vars

\* C1 witness: a parse has just failed while a document, an image entry and
\* a reference image were held.
C1_Witness ==
  /\ viewMode = "input"
  /\ error # Null
  /\ toast = ToastInvalidJson
  /\ data # Null
  /\ generatedImages # EmptyObj
  /\ Truthy(refImage)

\* C2 (as claimed): in every reachable state the held document is absent, or
\* has a storyboard_sequence that is an array and a project_meta.
C2_HeldDocumentIsWellFormed ==
  data # Null =>
    /\ HasSequence(data)
    /\ "project_meta" \in DOMAIN data.fields

\* The entries of a registry that an update mapping does not name.
Kept(registry, update) == (DOMAIN registry.fields) \ (DOMAIN update.fields)

\* C3 (as claimed): an update through onImagesUpdate or onVideosUpdate keeps
\* every stored entry whose index the reported mapping does not name, and
\* holds the reported payload for every index it names.
C3_UpdateMergesIntoRegistry ==
  [][/\ \A m \in ImageMaps : handleImagesUpdate(m) =>
          /\ \A k \in Kept(generatedImages, m) :
                Get(generatedImages', k) = Get(generatedImages, k)
          /\ \A k \in DOMAIN m.fields : Get(generatedImages', k) = m.fields[k]
     /\ \A m \in VideoMaps : handleVideosUpdate(m) =>
          /\ \A k \in Kept(videoUrls, m) : Get(videoUrls', k) = Get(videoUrls, k)
          /\ \A k \in DOMAIN m.fields : Get(videoUrls', k) = m.fields[k]]_vars

\* The backup file holds a data.storyboard_sequence that is an array.
BackupHasSequence(c) ==
  /\ JSONparse(c).ok
  /\ Get(JSONparse(c).val, "data").kind = "obj"
  /\ HasSequence(Get(JSONparse(c).val, "data"))

\* C4 (as claimed): a backup file whose data.storyboard_sequence is missing
\* or is not an array yields the invalid-backup failure, and onRestoreData is
\* not called for it.
C4_RestoreRejectsNonArraySequence ==
  [][\A c \in restoreReads :
       (~BackupHasSequence(c) /\ RestoreOnload(c))
         => /\ toast' = ToastRestoreFailed
            /\ UNCHANGED <<data, generatedImages, videoUrls, refImage, viewMode>>]_vars

\* The input, fence delimiters aside, is a document text without project_meta.
IsDocumentTextWithoutMeta(t) ==
  /\ IsDocumentText(t)
  /\ "project_meta" \notin DOMAIN JSONparse(Stripped(t)).val.fields

IsRawDocumentText(t) == JSONparse(t).ok /\ HasSequence(JSONparse(t).val)

\* handleVisualize has succeeded with this parsed value: the document holds
\* its storyboard_sequence (same length, same order) and its other fields,
\* the view is Output and the error slot is empty.
SucceededWith(parsed) ==
  /\ viewMode' = "output"
  /\ error' = Null
  /\ HasSequence(data')
  /\ Get(data', "storyboard_sequence") = Get(parsed, "storyboard_sequence")
  /\ \A k \in (DOMAIN parsed.fields) \ {"project_meta", "reference_image"} :
       Get(data', k) = Get(parsed, k)

\* C6 (as claimed): for every well-formed JSON input containing a
\* storyboard_sequence array, handleVisualize succeeds: the document becomes
\* the parsed value with a storyboard_sequence of identical length and order,
\* the view mode becomes Output and the error slot is empty.
C6_WellFormedInputSucceeds ==
  [][(VisualizeStep /\ IsRawDocumentText(jsonInput))
       => SucceededWith(JSONparse(jsonInput).val)]_vars

\* C6 (amended): for every input that, once its fence delimiters are
\* stripped, is well-formed JSON containing a storyboard_sequence array (the
\* empty array included), handleVisualize succeeds with the value parsed from
\* the stripped text.
C6_StrippedDocumentTextSucceeds ==
  [][(VisualizeStep /\ IsDocumentText(jsonInput))
       => SucceededWith(JSONparse(Stripped(jsonInput)).val)]_vars

\* C6 witness: a two-entry sequence has been visualized, in its order.
C6_Witness ==
  /\ viewMode = "output"
  /\ error = Null
  /\ toast = ToastCreated
  /\ data # Null
  /\ Get(data, "storyboard_sequence") = JArr(<<JNum(2), JNum(1)>>)

\* x when the blob has the field k with a truthy value, the empty mapping
\* otherwise.
BlobMap(blob, k) ==
  IF k \in DOMAIN blob.fields /\ Truthy(blob.fields[k]) THEN blob.fields[k]
  ELSE EmptyObj

\* C7: a successful restore overwrites the document and both registries
\* together with the blob's data, generatedImages and videoUrls, so that no
\* entry of the registries of before survives unless the blob holds it.
C7_RestoreReplacesDocumentAndRegistries ==
  [][\A c \in restoreReads :
       (RestoreOnload(c) /\ toast' = ToastRestoreDone)
         => /\ data' = Get(JSONparse(c).val, "data")
            /\ generatedImages' = BlobMap(JSONparse(c).val, "generatedImages")
            /\ videoUrls' = BlobMap(JSONparse(c).val, "videoUrls")]_vars

\* C7 witness: the backup without media has been restored after a failed
\* parse, and the session holds its document and two empty registries.
C7_Witness ==
  /\ toast = ToastRestoreDone
  /\ viewMode = "output"
  /\ data = JObj([storyboard_sequence |-> JArr(<< >>)])
  /\ generatedImages = EmptyObj
  /\ videoUrls = EmptyObj
  /\ error # Null

\* C8: a navigation request to Output while no document is held changes
\* nothing, and in every reachable state view mode = Output implies that a
\* document is held.
C8_OutputImpliesDocument ==
  /\ [](viewMode = "output" => data # Null)
  /\ [][(data = Null /\ onGoToOutput) => UNCHANGED vars]_vars

\* C8 witness: the view is Output after a navigation request (the last
\* notification is the one of a failed parse, which leaves the view Input).
C8_Witness ==
  /\ viewMode = "output"
  /\ toast = ToastInvalidJson
  /\ data # Null

\* C9 (as claimed): the error slot is cleared on every Input -> Output
\* transition, so no reachable state has view mode = Output with a non-empty
\* error slot.
C9_NoErrorInOutput == viewMode = "output" => error = Null

\* C10: reset sets the view mode to Input and empties the error slot, and
\* leaves the document, both media registries, the raw input text, the
\* reference image and the credential unchanged.
C10_ResetClearsOnlyError ==
  [][(viewMode = "output" /\ viewMode' = "input")
       => /\ error' = Null
          /\ UNCHANGED <<data, generatedImages, videoUrls, jsonInput, refImage,
                         userApiKey, storage>>]_vars

\* C10 witness: back in Input after a reset, with the document, an image
\* entry, a video entry, a text and a reference image still held.
C10_Witness ==
  /\ viewMode = "input"
  /\ error = Null
  /\ data # Null
  /\ generatedImages # EmptyObj
  /\ videoUrls # EmptyObj
  /\ jsonInput # << >>
  /\ Truthy(refImage)

\* The document of the backup that carries a reference image.
BackupWithRefData == Get(ParseText(BackupWithRef).val, "data")

\* C11: from Output, a reset followed by an explicit navigation back to
\* Output, with no parse or restore in between, ends in Output with exactly
\* the document, the image map and the video map of before: the reset keeps
\* the three and leaves a document to navigate to, every step taken in the
\* input view other than a parse or the end of a restore keeps the three, and
\* the navigation with a document held ends in Output.
C11_ResetAndNavigationKeepDocumentAndMaps ==
  [][/\ (viewMode = "output" /\ viewMode' = "input")
          => /\ UNCHANGED <<data, generatedImages, videoUrls>>
             /\ data' # Null
     /\ (/\ viewMode = "input"
         /\ ~VisualizeStep
         /\ ~(\E c \in restoreReads : RestoreOnload(c)))
          => UNCHANGED <<data, generatedImages, videoUrls>>
     /\ (viewMode = "input" /\ data # Null /\ onGoToOutput)
          => viewMode' = "output"]_vars

\* C11 witness: Output again after a round trip.  The restored document
\* carries a reference image and the slot is empty, so the image was cleared
\* in the input view after the restore and no document was parsed or restored
\* since; the maps are the ones reported before the reset.
C11_Witness ==
  /\ viewMode = "output"
  /\ data = BackupWithRefData
  /\ refImage = Null
  /\ generatedImages = JObj("2" :> JStr("X"))
  /\ videoUrls = JObj("5" :> JStr("W"))

\* The load has failed when this step ends it: the fetch was rejected, the
\* response was not ok or not an image, the conversion of the blob failed, or
\* the read of the uploaded file failed.
UrlLoadFails(l) ==
  \/ UrlFetchSettled(l) /\ FetchError(l.src) # ""
  \/ UrlOnloadend(l) /\ UrlResult(l.src) = Null
FileLoadFails(l) == ImageOnloadend(l) /\ FileResult(l.src) = Null

\* C12 (as claimed): when a reference-image load fails, for any of the three
\* failure kinds (fetch failure, content type not an image, conversion
\* failure), the reference-image slot keeps its value, and the failure is
\* reported through the inline urlError message (of the panel that started
\* the load, while it is mounted), not through the global notification.
C12_FailedLoadKeepsSlotAndReportsInline ==
  [][\A l \in imageLoads :
       /\ UrlLoadFails(l) => /\ refImage' = refImage
                             /\ toast' = toast
                             /\ l.live => urlError' # Null
       /\ FileLoadFails(l) => /\ refImage' = refImage
                              /\ toast' = toast]_vars

\* C13: reference-image loads are neither queued nor cancelled, and the last
\* completed write wins: starting a load and clearing the image leave every
\* load in flight as it is, and the completion of a load (its onloadend)
\* puts its own result into the slot whatever the slot holds, whatever the
\* order of the requests and whatever else is in flight, and ends no other
\* load.
C13_LastCompletedLoadWins ==
  [][/\ \A l \in imageLoads :
          /\ ImageOnloadend(l) => /\ refImage' = FileResult(l.src)
                                  /\ imageLoads' = imageLoads \ {l}
          /\ UrlOnloadend(l) => /\ refImage' = UrlResult(l.src)
                                /\ imageLoads' = imageLoads \ {l}
     /\ (\E f \in Files : handleImageUpload(f)) => imageLoads \subseteq imageLoads'
     /\ handleLoadImageUrl => imageLoads \subseteq imageLoads'
     /\ clearImage => imageLoads' = imageLoads]_vars

\* C13 witness: the slot holds the payload of the URL load while the read of
\* an uploaded file is still in flight.  Uploads start only while the slot
\* is empty, so the URL load completed while the file was being read, and
\* the file's completion will overwrite its payload.
C13_Witness ==
  /\ refImage = UrlResult(UrlOk)
  /\ \E l \in imageLoads : l.kind = "file" /\ l.src = "F1"

\* C14 (as claimed): every failure of a parse, a restore or a reference-image
\* load, a conversion failure signalled through the file reader's error
\* callback included, is caught by the handler that started the operation:
\* no exception is ever left uncaught.
C14_NoUncaughtException == uncaught = {}

\* The entry the durable store holds for a credential: the credential under
\* the fixed key, no entry for the empty credential.
Persisted(key) == IF key # "" THEN JStr(key) ELSE Null

IsBlob(c) ==
  /\ BackupHasSequence(c)
  /\ Get(JSONparse(c).val, "generatedImages").kind = "obj"
  /\ Get(JSONparse(c).val, "videoUrls").kind = "obj"

\* C16: for any document d with a storyboard_sequence array, any image map i
\* and any video map v (empty maps included), restoring the blob
\* {data: d, generatedImages: i, videoUrls: v} succeeds and leaves the session
\* holding exactly d, i and v.
C16_RestoreOfBlobHoldsItsParts ==
  [][\A c \in restoreReads :
       (IsBlob(c) /\ RestoreOnload(c))
         => /\ toast' = ToastRestoreDone
            /\ viewMode' = "output"
            /\ data' = Get(JSONparse(c).val, "data")
            /\ generatedImages' = Get(JSONparse(c).val, "generatedImages")
            /\ videoUrls' = Get(JSONparse(c).val, "videoUrls")]_vars

\* C16 witness: the blob with an empty sequence and two empty maps has been
\* restored.
C16_Witness ==
  /\ toast = ToastRestoreDone
  /\ viewMode = "output"
  /\ data = Get(ParseText(BackupEmptyMaps).val, "data")
  /\ generatedImages = EmptyObj
  /\ videoUrls = EmptyObj

\* The file is not well-formed JSON, or its value has no
\* data.storyboard_sequence.
HasNoDataSequence(c) ==
  \/ ~JSONparse(c).ok
  \/ Get(Get(JSONparse(c).val, "data"), "storyboard_sequence") = Undefined

\* C17: when the content read is not well-formed JSON or has no
\* data.storyboard_sequence, the restore fails without calling onRestoreData:
\* the document, the view mode, both media registries and the reference image
\* keep their values, and only a notification is emitted.
C17_FailedRestoreChangesOnlyToast ==
  [][\A c \in restoreReads :
       (HasNoDataSequence(c) /\ RestoreOnload(c))
         => /\ toast' = ToastRestoreFailed
            /\ UNCHANGED <<data, viewMode, generatedImages, videoUrls, refImage>>
            /\ UNCHANGED <<error, jsonInput, userApiKey, storage, localVars,
                           imageLoads, uncaught>>]_vars

\* C17 witness: a restore has just failed in the input view while a
\* document, an image entry and a reference image were held.
C17_Witness ==
  /\ toast = ToastRestoreFailed
  /\ viewMode = "input"
  /\ data # Null
  /\ generatedImages # EmptyObj
  /\ Truthy(refImage)

\* The field k is missing from the backup file.
LacksField(c, k) == k \notin DOMAIN JSONparse(c).val.fields

\* C18: restoring a backup that has a data.storyboard_sequence array but no
\* generatedImages and/or no videoUrls field succeeds, and each registry
\* whose field is missing becomes the empty mapping, whatever it held before.
C18_MissingRegistryDefaultsToEmpty ==
  [][\A c \in restoreReads :
       (/\ BackupHasSequence(c)
        /\ LacksField(c, "generatedImages") \/ LacksField(c, "videoUrls")
        /\ RestoreOnload(c))
         => /\ toast' = ToastRestoreDone
            /\ data' = Get(JSONparse(c).val, "data")
            /\ LacksField(c, "generatedImages") => generatedImages' = EmptyObj
            /\ LacksField(c, "videoUrls") => videoUrls' = EmptyObj]_vars

\* C18 witness: the backup with images and without videoUrls has been
\* restored: the image registry holds its entry, the video registry is
\* empty.
C18_Witness ==
  /\ toast = ToastRestoreDone
  /\ data = BackupWithRefData
  /\ generatedImages = JObj("1" :> JStr("Y"))
  /\ videoUrls = EmptyObj

\* C19: from any registry state, applying the same image (or video) update
\* mapping twice in succession through onImagesUpdate (onVideosUpdate)
\* yields the same registry as applying it once: applied to the registry
\* that an update has just produced, the same mapping produces that
\* registry again.
C19_UpdateIsIdempotent ==
  [][/\ \A m \in ImageMaps :
          handleImagesUpdate(m) => ImagesUpdated(generatedImages', m) = generatedImages'
     /\ \A m \in VideoMaps :
          handleVideosUpdate(m) => VideosUpdated(videoUrls', m) = videoUrls']_vars

\* C19 witness: both registries hold an update mapping, applied over the
\* registries that the restored backup had filled.
C19_Witness ==
  /\ viewMode = "output"
  /\ data = Get(ParseText(BackupFull).val, "data")
  /\ generatedImages = JObj("5" :> JStr("Y"))
  /\ videoUrls = JObj("2" :> JStr("V"))

\* The step has the outcome r of handleVisualize: the document of r is held
\* in the output view with no error, or the error slot holds the message of
\* r and the document and the view are the ones of before.
HasOutcome(r) ==
  IF r.ok
  THEN data' = r.doc /\ viewMode' = "output" /\ error' = Null
  ELSE error' = FormatError(r.msg) /\ UNCHANGED <<data, viewMode>>

\* C20: for any JSON text, wrapping it in a Markdown JSON fence (an opening
\* delimiter with or without the word json, and a closing delimiter) does not
\* change the outcome of handleVisualize: on the fenced text it produces the
\* document that the unwrapped text produces, or fails with the failure of
\* the unwrapped text.
C20_FencedTextHasOutcomeOfUnwrappedText ==
  [][VisualizeStep =>
       \A t \in JsonTexts :
         jsonInput \in Wrappings(t) => HasOutcome(Visualize(t, refImage))]_vars

\* C20 witness: the text with a two-entry sequence, typed between bare fence
\* delimiters on lines of their own, has been visualized.
C20_Witness ==
  /\ jsonInput = FenceBareLines(TextSeq12)
  /\ viewMode = "output"
  /\ toast = ToastCreated
  /\ Get(data, "storyboard_sequence") = JArr(<<JNum(1), JNum(2)>>)

\* C21 (as claimed): handleVisualize distinguishes two failure kinds: a text
\* that (fence delimiters aside) is not well-formed JSON yields the error
\* that carries the parser's message, and every well-formed JSON value
\* without a storyboard_sequence array, the non-object values such as null
\* included, yields the missing-sequence error, never another kind.
C21_TwoFailureKinds ==
  [][(VisualizeStep /\ ~IsDocumentText(jsonInput))
       => error' = IF JSONparse(Stripped(jsonInput)).ok
                   THEN FormatError(MsgMissingSequence)
                   ELSE FormatError(MsgSyntax)]_vars

\* A visualize request: the button or Ctrl/Cmd+Enter in the input view.
VisualizeRequest == VisualizeButtonClick \/ handleKeyDown

\* C22: a visualize request made while the credential is empty never reaches
\* the parser: the document, the view mode and the error slot (and the rest
\* of the session) are unchanged and only the settings dialog with its
\* warning is opened; so no step that leaves the notification or the error
\* of a parse attempt starts from a state where the credential is empty.
C22_NoParseWithoutCredential ==
  [][/\ (userApiKey = "" /\ VisualizeRequest)
          => /\ UNCHANGED <<data, viewMode, error>>
             /\ UNCHANGED <<userApiKey, storage, jsonInput, refImage,
                            generatedImages, videoUrls, toast>>
             /\ isSettingsOpen' /\ showApiKeyWarning'
             /\ UNCHANGED <<tempApiKey, urlVars, restoreReads, imageLoads,
                            uncaught>>
     /\ (toast' # toast /\ toast' \in {ToastCreated, ToastInvalidJson})
          => userApiKey # ""
     /\ (error' # error /\ error' # Null) => userApiKey # ""]_vars

\* C22 witness: with a document held and a document text typed, a request
\* made without a credential has opened the settings dialog with its
\* warning, and the view is still the input view.
C22_Witness ==
  /\ userApiKey = ""
  /\ isSettingsOpen
  /\ showApiKeyWarning
  /\ viewMode = "input"
  /\ jsonInput = TextSeq12
  /\ data # Null

\* C23: a successful parse replaces the held document and leaves both media
\* registries unchanged: every image and video entry stored for the previous
\* document stays under the same index, the indices beyond the end of the
\* new storyboard_sequence included.
C23_ParseKeepsRegistries ==
  [][(VisualizeStep /\ IsDocumentText(jsonInput))
       => /\ data' = Visualize(jsonInput, refImage).doc
          /\ viewMode' = "output"
          /\ UNCHANGED <<generatedImages, videoUrls>>]_vars

\* C23 witness: a two-entry document has been parsed over the registries of
\* a restored backup: the image entry of the backup is still held, next to
\* a video entry at index 5, beyond the end of the sequence.
C23_Witness ==
  /\ viewMode = "output"
  /\ toast = ToastCreated
  /\ Get(data, "storyboard_sequence") = JArr(<<JNum(1), JNum(2)>>)
  /\ generatedImages = JObj("0" :> JStr("X"))
  /\ videoUrls = JObj("5" :> JStr("W"))

\* The reference_image of the document in the backup file (undefined when it
\* has none).
BackupReferenceImage(c) ==
  Get(Get(JSONparse(c).val, "data"), "reference_image")

=============================================================================
